---- MODULE Spec2Model ----
(***************************************************************************)
(* Model of the desmos_lang compiler (desmos_lang/src/compiler/compiler.rs)*)
(* and of the LaTeX tree it produces (desmos_lang/src/core/latex.rs).      *)
(*                                                                         *)
(* A Context is the four fields variables, locals, defined_functions and   *)
(* inside_map_macro.  Every compiling function is an operator that takes   *)
(* the context and returns a Result record holding the outcome (Ok, Err or *)
(* Panic), the context as the function leaves it, and the spans of the     *)
(* expressions handed to compile_expr, in the order of the calls.          *)
(***************************************************************************)
EXTENDS Integers, Sequences, FiniteSets, TLC

VARIABLES
    variables,          \* Context.variables
    locals,             \* Context.locals
    defined_functions,  \* Context.defined_functions
    inside_map_macro,   \* Context.inside_map_macro
    call,               \* the last call made on the Context, with its arguments
    result,             \* what that call returned
    declared,           \* history: parameters of the definitions compiled so far
    steps,              \* history: number of compile_stmt calls made so far
    registered,         \* history: every [name, sig] a definition has registered
    other               \* a second Context, given the same statements as the first

vars == <<variables, locals, defined_functions, inside_map_macro, call, result, declared, steps,
          registered, other>>

\* longest program compiled, and longest argument / element list of an input
MaxStmts == 3
MaxArgs == 2

(***************************************************************************)
(* core/runtime.rs: ValType                                                *)
(***************************************************************************)
Number == "Number"
List == "List"
ValType == {Number, List}

(***************************************************************************)
(* Spans.  A span is the path of the node in the statement; two nodes of   *)
(* one input never share a span.                                           *)
(***************************************************************************)
RootSpan == <<1>>
NoSpan == <<>>
Sub(span, i) == Append(span, i)

(***************************************************************************)
(* Maps (HashMap<&str, T>) are functions whose domain is the set of keys.  *)
(***************************************************************************)
EmptyMap == [k \in {} |-> Number]
Insert(m, k, v) == [x \in (DOMAIN m) \cup {k} |-> IF x = k THEN v ELSE m[x]]

(***************************************************************************)
(* core/ast.rs: the positioned input tree.  A LocatedExpression is a       *)
(* record with its span and the fields of its variant.                     *)
(***************************************************************************)
BinaryOperator == {"Add", "Subtract", "Multiply", "Divide", "Mod"}
CompareOperator == {"Equal", "GreaterThan", "LessThan", "GreaterThanEqual", "LessThanEqual"}

ENum(span, val) == [tag |-> "Num", span |-> span, val |-> val]
EVariable(span, val) == [tag |-> "Variable", span |-> span, val |-> val]
EBinaryExpr(span, left, operator, right) ==
    [tag |-> "BinaryExpr", span |-> span, left |-> left, operator |-> operator, right |-> right]
EUnaryExpr(span, val, operator) ==
    [tag |-> "UnaryExpr", span |-> span, val |-> val, operator |-> operator]
ECall(span, modifier, func, args) ==
    [tag |-> "Call", span |-> span, modifier |-> modifier, func |-> func, args |-> args]
EList(span, values) == [tag |-> "List", span |-> span, values |-> values]
EPiecewise(span, first, rest, default) ==
    [tag |-> "Piecewise", span |-> span, first |-> first, rest |-> rest, default |-> default]
EMapExpression(span, inner) == [tag |-> "MapExpression", span |-> span, inner |-> inner]
Branch(cond_left, cond, cond_right, val) ==
    [cond_left |-> cond_left, cond |-> cond, cond_right |-> cond_right, val |-> val]
FunctionDefinition(name, args, ret_annotation) ==
    [name |-> name, args |-> args, ret_annotation |-> ret_annotation]
NoAnnotation == "None"

(***************************************************************************)
(* core/latex.rs: the output tree.                                         *)
(***************************************************************************)
LVariable(s) == [tag |-> "Variable", val |-> s]
LNum(s) == [tag |-> "Num", val |-> s]
LCall(func, is_builtin, args) ==
    [tag |-> "Call", func |-> func, is_builtin |-> is_builtin, args |-> args]
LBinaryExpression(left, operator, right) ==
    [tag |-> "BinaryExpression", left |-> left, operator |-> operator, right |-> right]
LUnaryExpression(left, operator) ==
    [tag |-> "UnaryExpression", left |-> left, operator |-> operator]
LList(items) == [tag |-> "List", items |-> items]
LAssignment(left, right) == [tag |-> "Assignment", left |-> left, right |-> right]
LFuncDef(name, args, body) == [tag |-> "FuncDef", name |-> name, args |-> args, body |-> body]
LPiecewise(first, rest, default) ==
    [tag |-> "Piecewise", first |-> first, rest |-> rest, default |-> default]
Cond(left, op, right, res) == [left |-> left, op |-> op, right |-> right, result |-> res]
NoLatex == [tag |-> "None"]

(***************************************************************************)
(* compiler/error.rs: CompileErrorKind                                     *)
(***************************************************************************)
NoKind == [kind |-> "None", name |-> "", got |-> "", expected |-> "",
           argc_got |-> 0, argc_expected |-> 0]
UnknownFunction(name) == [NoKind EXCEPT !.kind = "UnknownFunction", !.name = name]
WrongArgCount(got, expected) ==
    [NoKind EXCEPT !.kind = "WrongArgCount", !.argc_got = got, !.argc_expected = expected]
TypeMismatch(got, expected) ==
    [NoKind EXCEPT !.kind = "TypeMismatch", !.got = got, !.expected = expected]
UndefinedVariable(name) == [NoKind EXCEPT !.kind = "UndefinedVariable", !.name = name]
UndefinedMacro(name) == [NoKind EXCEPT !.kind = "UndefinedMacro", !.name = name]
BadMapMacro == [NoKind EXCEPT !.kind = "BadMapMacro"]
ExpectedFunction == [NoKind EXCEPT !.kind = "ExpectedFunction"]
NoNestedList == [NoKind EXCEPT !.kind = "NoNestedList"]

(***************************************************************************)
(* Result<(Latex, ValType), CompileError>, with the context on return and  *)
(* the spans compiled.  status Panic is unimplemented!() / unreachable!(). *)
(***************************************************************************)
Context(v, l, d, m) ==
    [variables |-> v, locals |-> l, defined_functions |-> d, inside_map_macro |-> m]
Ok(latex, type, ctx, trace) ==
    [status |-> "Ok", latex |-> latex, type |-> type, err |-> NoKind, span |-> NoSpan,
     items |-> <<>>, ctx |-> ctx, trace |-> trace]
Err(kind, span, ctx, trace) ==
    [status |-> "Err", latex |-> NoLatex, type |-> "", err |-> kind, span |-> span,
     items |-> <<>>, ctx |-> ctx, trace |-> trace]
Panic(ctx, trace) ==
    [status |-> "Panic", latex |-> NoLatex, type |-> "", err |-> NoKind, span |-> NoSpan,
     items |-> <<>>, ctx |-> ctx, trace |-> trace]
NoResult ==
    [status |-> "None", latex |-> NoLatex, type |-> "", err |-> NoKind, span |-> NoSpan,
     items |-> <<>>, ctx |-> Context(EmptyMap, EmptyMap, EmptyMap, FALSE), trace |-> <<>>]
After(trace, r) == [r EXCEPT !.trace = trace \o @]

(***************************************************************************)
(* compiler/builtins.rs: BUILTIN_FUNCTIONS, the static signature table.    *)
(***************************************************************************)
FunctionSignature(args, ret) == [args |-> args, ret |-> ret]
BUILTIN_FUNCTIONS ==
    [f \in {"sin", "mod"} |->
        IF f = "sin" THEN FunctionSignature(<<Number>>, Number)
        ELSE FunctionSignature(<<Number, Number>>, Number)]

(***************************************************************************)
(* Resolvers                                                               *)
(***************************************************************************)
NotFound == [found |-> FALSE, func |-> FunctionSignature(<<>>, Number), is_builtin |-> FALSE]
\* resolve_function looking in the builtin table before the user functions
resolve_function_builtin_first(ctx, func) ==
    IF func \in DOMAIN BUILTIN_FUNCTIONS
    THEN [found |-> TRUE, func |-> BUILTIN_FUNCTIONS[func], is_builtin |-> TRUE]
    ELSE IF func \in DOMAIN ctx.defined_functions
         THEN [found |-> TRUE, func |-> ctx.defined_functions[func], is_builtin |-> FALSE]
         ELSE NotFound

\* resolve_function reading one table of user functions for every Context, the
\* first Context's, instead of the table of the Context it is given
resolve_function_shared_table(ctx, func) ==
    IF func \in DOMAIN defined_functions
    THEN [found |-> TRUE, func |-> defined_functions[func], is_builtin |-> FALSE]
    ELSE IF func \in DOMAIN BUILTIN_FUNCTIONS
         THEN [found |-> TRUE, func |-> BUILTIN_FUNCTIONS[func], is_builtin |-> TRUE]
         ELSE NotFound

resolve_function(ctx, func) ==
    IF func \in DOMAIN ctx.defined_functions
    THEN [found |-> TRUE, func |-> ctx.defined_functions[func], is_builtin |-> FALSE]
    ELSE IF func \in DOMAIN BUILTIN_FUNCTIONS
         THEN [found |-> TRUE, func |-> BUILTIN_FUNCTIONS[func], is_builtin |-> TRUE]
         ELSE NotFound

\* resolve_variable looking in the locals before the globals
resolve_variable_locals_first(ctx, var) ==
    IF var \in DOMAIN ctx.locals THEN [found |-> TRUE, type |-> ctx.locals[var]]
    ELSE IF var \in DOMAIN ctx.variables THEN [found |-> TRUE, type |-> ctx.variables[var]]
         ELSE [found |-> FALSE, type |-> ""]

resolve_variable(ctx, var) ==
    IF var \in DOMAIN ctx.variables THEN [found |-> TRUE, type |-> ctx.variables[var]]
    ELSE IF var \in DOMAIN ctx.locals THEN [found |-> TRUE, type |-> ctx.locals[var]]
         ELSE [found |-> FALSE, type |-> ""]

(***************************************************************************)
(* compile_call.  args is a sequence of [span, latex, type].               *)
(***************************************************************************)
\* the relaxation of macro mode applied in both directions
type_errors_ok_both_ways(ctx, got_type, expect_type) ==
    ctx.inside_map_macro /\ got_type # expect_type

type_errors_ok(ctx, got_type, expect_type) ==
    ctx.inside_map_macro /\ got_type = List /\ expect_type = Number

\* call_args reporting the last mismatching argument instead of the first
call_args_last_mismatch(ctx, func, args, i, acc) ==
    LET bad == {j \in i..Len(func.args) :
                    ~type_errors_ok(ctx, args[j].type, func.args[j]) /\ args[j].type # func.args[j]}
        last == CHOOSE j \in bad : \A k \in bad : k <= j
    IN IF bad = {}
       THEN [Ok(NoLatex, "", ctx, <<>>)
             EXCEPT !.items = acc \o [j \in 1..(Len(func.args) - i + 1) |-> args[i + j - 1].latex]]
       ELSE Err(TypeMismatch(args[last].type, func.args[last]), args[last].span, ctx, <<>>)

RECURSIVE call_args(_, _, _, _, _)
call_args(ctx, func, args, i, acc) ==
    IF i > Len(func.args) THEN [Ok(NoLatex, "", ctx, <<>>) EXCEPT !.items = acc]
    ELSE IF ~type_errors_ok(ctx, args[i].type, func.args[i]) /\ args[i].type # func.args[i]
         THEN Err(TypeMismatch(args[i].type, func.args[i]), args[i].span, ctx, <<>>)
         ELSE call_args(ctx, func, args, i + 1, Append(acc, args[i].latex))

\* compile_call once the arguments are checked
call_node(ctx, fname, rf, args_latex) ==
    IF args_latex.status # "Ok" THEN args_latex
    ELSE Ok(LCall(fname, rf.is_builtin, args_latex.items), rf.func.ret, ctx, <<>>)

\* compile_call once the callee is resolved, rejecting only too few arguments
call_resolved_accepts_extra_args(ctx, span, fname, args, rf) ==
    IF ~rf.found THEN Err(UnknownFunction(fname), span, ctx, <<>>)
    ELSE IF Len(args) < Len(rf.func.args)
         THEN Err(WrongArgCount(Len(args), Len(rf.func.args)), span, ctx, <<>>)
         ELSE call_node(ctx, fname, rf, call_args(ctx, rf.func, args, 1, <<>>))

\* compile_call once the callee is resolved
call_resolved(ctx, span, fname, args, rf) ==
    IF ~rf.found THEN Err(UnknownFunction(fname), span, ctx, <<>>)
    ELSE IF Len(args) # Len(rf.func.args)
         THEN Err(WrongArgCount(Len(args), Len(rf.func.args)), span, ctx, <<>>)
         ELSE call_node(ctx, fname, rf, call_args(ctx, rf.func, args, 1, <<>>))

compile_call(ctx, span, fname, args) ==
    call_resolved(ctx, span, fname, args, resolve_function(ctx, fname))

check_type(span, got, expect, ctx) ==
    IF got # expect THEN Err(TypeMismatch(got, expect), span, ctx, <<>>)
    ELSE Ok(NoLatex, "", ctx, <<>>)

\* binop_to_latex with two arms exchanged
binop_to_latex_swapped(op) ==
    CASE op = "Add" -> "Add"
      [] op = "Subtract" -> "Subtract"
      [] op = "Multiply" -> "Divide"
      [] op = "Divide" -> "Multiply"
      [] op = "Mod" -> "unreachable"

binop_to_latex(op) ==
    CASE op = "Add" -> "Add"
      [] op = "Subtract" -> "Subtract"
      [] op = "Multiply" -> "Multiply"
      [] op = "Divide" -> "Divide"
      [] op = "Mod" -> "unreachable"

unop_to_latex(op) == "Factorial"

(***************************************************************************)
(* compile_expr and the functions it recurses through.                     *)
(***************************************************************************)
RECURSIVE compile_expr(_, _)
RECURSIVE compile_expect(_, _, _, _)
RECURSIVE compile_args(_, _, _)
RECURSIVE compile_items(_, _, _)
RECURSIVE branch_to_cond(_, _)
RECURSIVE compile_rest(_, _, _)

\* Each function is followed through its steps: an operator named f_step is
\* f from that step on, given the results of the calls made before it.

\* compile_expect after compile_expr returned r: check_type(span, t, expect)?
expect_checked(r, c) == IF c.status # "Ok" THEN After(r.trace, c) ELSE r
expect_compiled(span, expect, r) ==
    IF r.status # "Ok" THEN r
    ELSE expect_checked(r, check_type(span, r.type, expect, r.ctx))
compile_expect(ctx, span, expr, expect) ==
    expect_compiled(span, expect, compile_expr(ctx, expr))

\* args.into_iter().map(|(s, e)| compile_expr(ctx, (s, e))).collect::<Result<Vec<_>, _>>()
args_next(args, acc, r) ==
    IF r.status # "Ok" THEN r
    ELSE After(r.trace,
               compile_args(r.ctx, Tail(args),
                            Append(acc, [span |-> Head(args).span, latex |-> r.latex,
                                         type |-> r.type])))
compile_args(ctx, args, acc) ==
    IF args = <<>> THEN [Ok(NoLatex, "", ctx, <<>>) EXCEPT !.items = acc]
    ELSE args_next(args, acc, compile_expr(ctx, Head(args)))

\* an item of a list taken without the element type check
items_next_unchecked(values, acc, r) ==
    IF r.status # "Ok" THEN r
    ELSE After(r.trace, compile_items(r.ctx, Tail(values), Append(acc, r.latex)))

\* the items of Expression::List: each is compiled, then checked
items_next(values, acc, r) ==
    IF r.status # "Ok" THEN r
    ELSE IF r.type # Number THEN Err(NoNestedList, Head(values).span, r.ctx, r.trace)
         ELSE After(r.trace, compile_items(r.ctx, Tail(values), Append(acc, r.latex)))
compile_items(ctx, values, acc) ==
    IF values = <<>> THEN [Ok(NoLatex, "", ctx, <<>>) EXCEPT !.items = acc]
    ELSE items_next(values, acc, compile_expr(ctx, Head(values)))

\* branch_to_cond: left (expected Number), then right, then the result
cond_done(branch, left, right, res) ==
    IF res.status # "Ok" THEN After(left.trace \o right.trace, res)
    ELSE [Ok(NoLatex, "", res.ctx, left.trace \o right.trace \o res.trace)
          EXCEPT !.items = <<Cond(left.latex, branch.cond, right.latex, res.latex)>>]
cond_result(branch, left, right) ==
    IF right.status # "Ok" THEN After(left.trace, right)
    ELSE cond_done(branch, left, right, compile_expr(right.ctx, branch.val))
\* the right operand of a branch expected to be a Number, like the left
cond_right_expects_number(branch, left) ==
    IF left.status # "Ok" THEN left
    ELSE cond_result(branch, left,
                     compile_expect(left.ctx, branch.cond_right.span, branch.cond_right, Number))

cond_right(branch, left) ==
    IF left.status # "Ok" THEN left
    ELSE cond_result(branch, left, compile_expr(left.ctx, branch.cond_right))
branch_to_cond(ctx, branch) ==
    cond_right(branch, compile_expect(ctx, branch.cond_left.span, branch.cond_left, Number))

\* the rest branches collected last branch first
rest_next_reversed(rest, acc, r) ==
    IF r.status # "Ok" THEN r
    ELSE After(r.trace, compile_rest(r.ctx, Tail(rest), r.items \o acc))

\* rest.into_iter().map(|b| branch_to_cond(ctx, b)).collect::<Result<Vec<_>, _>>()
rest_next(rest, acc, r) ==
    IF r.status # "Ok" THEN r
    ELSE After(r.trace, compile_rest(r.ctx, Tail(rest), acc \o r.items))
compile_rest(ctx, rest, acc) ==
    IF rest = <<>> THEN [Ok(NoLatex, "", ctx, <<>>) EXCEPT !.items = acc]
    ELSE rest_next(rest, acc, branch_to_cond(ctx, Head(rest)))

\* Expression::BinaryExpr: the left operand, the right operand, the node
binary_done(expr, lv, rv) ==
    IF rv.status # "Ok" THEN After(<<expr.span>> \o lv.trace, rv)
    ELSE IF expr.operator = "Mod"
         THEN Ok(LCall("mod", TRUE, <<lv.latex, rv.latex>>), Number, rv.ctx,
                 <<expr.span>> \o lv.trace \o rv.trace)
         ELSE IF binop_to_latex(expr.operator) = "unreachable"
              THEN Panic(rv.ctx, <<expr.span>> \o lv.trace \o rv.trace)
              ELSE Ok(LBinaryExpression(lv.latex, binop_to_latex(expr.operator), rv.latex),
                      Number, rv.ctx, <<expr.span>> \o lv.trace \o rv.trace)
binary_right(expr, lv) ==
    IF lv.status # "Ok" THEN After(<<expr.span>>, lv)
    ELSE binary_done(expr, lv, compile_expect(lv.ctx, expr.span, expr.right, Number))

\* Expression::UnaryExpr
unary_done(expr, v) ==
    IF v.status # "Ok" THEN After(<<expr.span>>, v)
    ELSE Ok(LUnaryExpression(v.latex, unop_to_latex(expr.operator)), Number, v.ctx,
            <<expr.span>> \o v.trace)

\* a normal call that looks the callee up before it reports what compiling
\* the arguments gave
call_done_resolves_first(expr, compiled_args) ==
    IF ~resolve_function(compiled_args.ctx, expr.func).found
    THEN Err(UnknownFunction(expr.func), expr.span, compiled_args.ctx,
             <<expr.span>> \o compiled_args.trace)
    ELSE IF compiled_args.status # "Ok" THEN After(<<expr.span>>, compiled_args)
         ELSE After(<<expr.span>> \o compiled_args.trace,
                    compile_call(compiled_args.ctx, expr.span, expr.func, compiled_args.items))

\* Expression::Call with CallModifier::NormalCall, the arguments compiled
call_done(expr, compiled_args) ==
    IF compiled_args.status # "Ok" THEN After(<<expr.span>>, compiled_args)
    ELSE After(<<expr.span>> \o compiled_args.trace,
               compile_call(compiled_args.ctx, expr.span, expr.func, compiled_args.items))

\* Expression::List
list_done(expr, items) ==
    IF items.status # "Ok" THEN After(<<expr.span>>, items)
    ELSE Ok(LList(items.items), List, items.ctx, <<expr.span>> \o items.trace)

\* Expression::Piecewise: first, rest, default (expected Number)
piecewise_done(expr, first, rest, d) ==
    IF d.status # "Ok" THEN After(<<expr.span>> \o first.trace \o rest.trace, d)
    ELSE Ok(LPiecewise(first.items[1], rest.items, d.latex), Number, d.ctx,
            <<expr.span>> \o first.trace \o rest.trace \o d.trace)
piecewise_default(expr, first, rest) ==
    IF rest.status # "Ok" THEN After(<<expr.span>> \o first.trace, rest)
    ELSE piecewise_done(expr, first, rest,
                        compile_expect(rest.ctx, expr.default.span, expr.default, Number))
piecewise_rest(expr, first) ==
    IF first.status # "Ok" THEN After(<<expr.span>>, first)
    ELSE piecewise_default(expr, first, compile_rest(first.ctx, expr.rest, <<>>))

\* a reference to an undefined name entered into the locals as a Number
\* while the error is reported
variable_resolved_declares(ctx, expr, var) ==
    IF var.found THEN Ok(LVariable(expr.val), var.type, ctx, <<expr.span>>)
    ELSE Err(UndefinedVariable(expr.val), expr.span,
             [ctx EXCEPT !.locals = Insert(@, expr.val, Number)], <<expr.span>>)

variable_resolved(ctx, expr, var) ==
    IF var.found THEN Ok(LVariable(expr.val), var.type, ctx, <<expr.span>>)
    ELSE Err(UndefinedVariable(expr.val), expr.span, ctx, <<expr.span>>)

compile_expr(ctx, expr) ==
    CASE expr.tag = "Num" -> Ok(LNum(expr.val), Number, ctx, <<expr.span>>)
      [] expr.tag = "Variable" -> variable_resolved(ctx, expr, resolve_variable(ctx, expr.val))
      [] expr.tag = "BinaryExpr" ->
            binary_right(expr, compile_expect(ctx, expr.span, expr.left, Number))
      [] expr.tag = "UnaryExpr" ->
            unary_done(expr, compile_expect(ctx, expr.span, expr.val, Number))
      [] expr.tag = "Call" ->
            IF expr.modifier = "NormalCall"
            THEN call_done(expr, compile_args(ctx, expr.args, <<>>))
            ELSE Panic(ctx, <<expr.span>>)
      [] expr.tag = "List" -> list_done(expr, compile_items(ctx, expr.values, <<>>))
      [] expr.tag = "Piecewise" -> piecewise_rest(expr, branch_to_cond(ctx, expr.first))
      [] expr.tag = "MapExpression" -> Panic(ctx, <<expr.span>>)

(***************************************************************************)
(* The macro expander.                                                     *)
(***************************************************************************)
\* the call made without entering macro mode
map_call_flag_unset(span, fname, call_args_) ==
    IF call_args_.status # "Ok" THEN call_args_
    ELSE After(call_args_.trace,
               compile_call(call_args_.ctx, span, fname, call_args_.items))

\* the call made in macro mode, the flag never put back
map_call_flag_left_set(span, fname, call_args_) ==
    IF call_args_.status # "Ok" THEN call_args_
    ELSE After(call_args_.trace,
               compile_call([call_args_.ctx EXCEPT !.inside_map_macro = TRUE],
                            span, fname, call_args_.items))

\* handle_map_macro once the remaining arguments are compiled: the call is
\* made in macro mode and the flag is put back
map_call(span, fname, call_args_) ==
    IF call_args_.status # "Ok" THEN call_args_
    ELSE After(call_args_.trace,
               [compile_call([call_args_.ctx EXCEPT !.inside_map_macro = TRUE],
                             span, fname, call_args_.items)
                EXCEPT !.ctx.inside_map_macro = call_args_.ctx.inside_map_macro])

\* handle_map_macro compiling the remaining arguments before it looks at the
\* shape of the first
handle_map_macro_compiles_first(ctx, span, args) ==
    IF Len(args) < 2 THEN Err(BadMapMacro, span, ctx, <<>>)
    ELSE IF compile_args(ctx, Tail(args), <<>>).status # "Ok"
         THEN compile_args(ctx, Tail(args), <<>>)
         ELSE IF Head(args).tag = "Variable"
              THEN map_call(span, Head(args).val, compile_args(ctx, Tail(args), <<>>))
              ELSE Err(ExpectedFunction, Head(args).span, ctx, <<>>)

\* handle_map_macro entering macro mode before it compiles the remaining
\* arguments
handle_map_macro_args_in_macro_mode(ctx, span, args) ==
    IF Len(args) < 2 THEN Err(BadMapMacro, span, ctx, <<>>)
    ELSE IF Head(args).tag = "Variable"
         THEN [map_call(span, Head(args).val,
                        compile_args([ctx EXCEPT !.inside_map_macro = TRUE], Tail(args), <<>>))
               EXCEPT !.ctx.inside_map_macro = ctx.inside_map_macro]
         ELSE Err(ExpectedFunction, Head(args).span, ctx, <<>>)

handle_map_macro(ctx, span, args) ==
    IF Len(args) < 2 THEN Err(BadMapMacro, span, ctx, <<>>)
    ELSE IF Head(args).tag = "Variable"
         THEN map_call(span, Head(args).val, compile_args(ctx, Tail(args), <<>>))
         ELSE Err(ExpectedFunction, Head(args).span, ctx, <<>>)

handle_macro(ctx, span, name, args) ==
    IF name = "map" THEN handle_map_macro(ctx, span, args)
    ELSE Err(UndefinedMacro(name), span, ctx, <<>>)

(***************************************************************************)
(* compile_stmt.  A statement is [tag, span, fdef, e]: for a FuncDef e is  *)
(* the located body, for an Expression e.span is the statement's span.     *)
(***************************************************************************)
SExpression(e) == [tag |-> "Expression", span |-> e.span, fdef |-> FunctionDefinition("", <<>>, NoAnnotation), e |-> e]
SFuncDef(span, fdef, e) == [tag |-> "FuncDef", span |-> span, fdef |-> fdef, e |-> e]

RECURSIVE insert_args(_, _)
insert_args(l, args) ==
    IF args = <<>> THEN l
    ELSE insert_args(Insert(l, Head(args).name, Head(args).type), Tail(args))

\* Statement::Expression: the type is discarded
stmt_expression(r) == IF r.status # "Ok" THEN r ELSE [r EXCEPT !.type = ""]

\* Statement::FuncDef once the annotation is checked (c): restore the locals,
\* register the signature, emit the FuncDef node
funcdef_register(old_locals, fdef, b, c) ==
    IF c.status # "Ok" THEN After(b.trace, c)
    ELSE Ok(LFuncDef(fdef.name, [i \in 1..Len(fdef.args) |-> fdef.args[i].name], b.latex),
            "",
            [b.ctx EXCEPT !.locals = old_locals,
                          !.defined_functions =
                              Insert(@, fdef.name,
                                     FunctionSignature([i \in 1..Len(fdef.args) |->
                                                            fdef.args[i].type],
                                                       b.type))],
            b.trace)

\* the signature registered although the annotation check fails
funcdef_body_registers_unchecked(old_locals, fdef, span, b) ==
    IF b.status # "Ok" THEN b
    ELSE IF fdef.ret_annotation # NoAnnotation /\ b.type # fdef.ret_annotation
         THEN Err(TypeMismatch(b.type, fdef.ret_annotation), span,
                  funcdef_register(old_locals, fdef, b, Ok(NoLatex, "", b.ctx, <<>>)).ctx,
                  b.trace)
         ELSE funcdef_register(old_locals, fdef, b, Ok(NoLatex, "", b.ctx, <<>>))

\* Statement::FuncDef once the body is compiled (b): check the annotation
funcdef_body(old_locals, fdef, span, b) ==
    IF b.status # "Ok" THEN b
    ELSE funcdef_register(old_locals, fdef, b,
                          IF fdef.ret_annotation # NoAnnotation
                          THEN check_type(span, b.type, fdef.ret_annotation, b.ctx)
                          ELSE Ok(NoLatex, "", b.ctx, <<>>))

\* compile_stmt registering the signature before the body is compiled
compile_stmt_registers_first(ctx, stmt) ==
    IF stmt.tag = "Expression"
    THEN stmt_expression(compile_expr(ctx, stmt.e))
    ELSE funcdef_body(ctx.locals, stmt.fdef, stmt.e.span,
                      compile_expr([ctx EXCEPT
                                      !.locals = insert_args(ctx.locals, stmt.fdef.args),
                                      !.defined_functions =
                                          Insert(@, stmt.fdef.name,
                                                 FunctionSignature(
                                                     [i \in 1..Len(stmt.fdef.args) |->
                                                         stmt.fdef.args[i].type],
                                                     Number))],
                                   stmt.e))

compile_stmt(ctx, stmt) ==
    IF stmt.tag = "Expression"
    THEN stmt_expression(compile_expr(ctx, stmt.e))
    ELSE funcdef_body(ctx.locals, stmt.fdef, stmt.e.span,
                      compile_expr([ctx EXCEPT
                                      !.locals = insert_args(ctx.locals, stmt.fdef.args)],
                                   stmt.e))

(***************************************************************************)
(* Inputs.                                                                 *)
(***************************************************************************)
SeqsUpTo(S, n) == UNION {[1..k -> S] : k \in 0..n}

\* what the caller may have put into Context.variables before compiling
GlobalChoices == {EmptyMap, [k \in {"x"} |-> Number], [k \in {"a"} |-> List]}

\* operands: literals, a global, a parameter name, an undefined name, a list
OperandCodes == {"1", "2", "x", "a", "z", "[3]"}
OperandAt(s, c) ==
    CASE c = "1" -> ENum(s, "1")
      [] c = "2" -> ENum(s, "2")
      [] c = "x" -> EVariable(s, "x")
      [] c = "a" -> EVariable(s, "a")
      [] c = "z" -> EVariable(s, "z")
      [] c = "[3]" -> EList(s, <<ENum(Sub(s, 1), "3")>>)
Operands(s) == {OperandAt(s, c) : c \in OperandCodes}
\* the sequences of at most n operands, the i-th one at span Sub(s, i)
OperandSeqs(s, n) ==
    {[i \in 1..Len(cs) |-> OperandAt(Sub(s, i), cs[i])] : cs \in SeqsUpTo(OperandCodes, n)}

FuncNames == {"sin", "mod", "f", "h"}

\* the branches a rest sequence is drawn from: two that compile, with different
\* comparators, one whose left operand is a list, one whose result is undefined
RestBranch(s, c) ==
    CASE c = "lt" -> Branch(ENum(Sub(s, 4), "1"), "LessThan", ENum(Sub(s, 5), "2"),
                            EList(Sub(s, 7), <<>>))
      [] c = "ge" -> Branch(ENum(Sub(s, 8), "2"), "GreaterThanEqual",
                            EList(Sub(s, 9), <<ENum(Sub(Sub(s, 9), 1), "3")>>),
                            ENum(Sub(s, 10), "1"))
      [] c = "list" -> Branch(EList(Sub(s, 11), <<>>), "Equal", EVariable(Sub(s, 12), "z"),
                              ENum(Sub(s, 13), "1"))
      [] c = "undef" -> Branch(ENum(Sub(s, 14), "1"), "LessThanEqual", ENum(Sub(s, 15), "2"),
                               EVariable(Sub(s, 16), "z"))
RestCodes == {<<>>, <<"lt">>, <<"lt", "ge">>, <<"ge", "lt">>, <<"list", "lt">>, <<"lt", "undef">>}

PiecewiseAt(s, l, op, r, v, d, rest) ==
    EPiecewise(s,
               Branch(OperandAt(Sub(s, 1), l), op, OperandAt(Sub(s, 2), r), OperandAt(Sub(s, 3), v)),
               [i \in 1..Len(rest) |-> RestBranch(s, rest[i])],
               OperandAt(Sub(s, 6), d))
\* every comparator over operands that compile, and one comparator over
\* operands of which any may fail
PiecewiseInputs(s) ==
    {PiecewiseAt(s, "1", op, r, v, "1", rest) :
        op \in CompareOperator, r \in {"2", "[3]"}, v \in {"2", "[3]"}, rest \in RestCodes}
    \cup {PiecewiseAt(s, l, "Equal", r, v, d, rest) :
            l \in {"1", "[3]", "z"}, r \in {"2", "[3]", "z"}, v \in {"2", "[3]"},
            d \in {"1", "[3]", "z"}, rest \in RestCodes}

ExprInputs(s) ==
    Operands(s)
    \cup {EBinaryExpr(s, l, op, r) :
            l \in Operands(Sub(s, 1)), op \in BinaryOperator, r \in Operands(Sub(s, 2))}
    \cup {EUnaryExpr(s, v, "Factorial") : v \in Operands(Sub(s, 1))}
    \cup {ECall(s, "NormalCall", f, args) : f \in FuncNames, args \in OperandSeqs(s, MaxArgs)}
    \cup {ECall(s, "MapCall", "sin", args) : args \in OperandSeqs(s, 1)}
    \cup {EList(s, values) : values \in OperandSeqs(s, MaxArgs)}
    \cup {EList(s, <<EList(Sub(s, 1), <<EList(Sub(Sub(s, 1), 1), <<>>)>>), ENum(Sub(s, 2), "1")>>)}
    \cup {EMapExpression(s, ENum(Sub(s, 1), "1"))}
    \cup PiecewiseInputs(s)

\* already compiled arguments, as compile_call takes them
ArgLatex(i, t) ==
    IF t = Number THEN LNum(<<"1", "2", "3", "4", "5", "6">>[i])
    ELSE LList(<<LNum(<<"1", "2", "3", "4", "5", "6">>[i])>>)
CompiledArgs(s, n) ==
    {[i \in 1..Len(ts) |-> [span |-> Sub(s, i), latex |-> ArgLatex(i, ts[i]), type |-> ts[i]]] :
        ts \in SeqsUpTo(ValType, n)}

\* arguments of a macro: a first argument, then operands
MacroArgs(s) ==
    {<<>>}
    \cup {<<first>> \o [i \in 1..Len(cs) |-> OperandAt(Sub(s, i + 1), cs[i])] :
            first \in {EVariable(Sub(s, 1), "f"), EVariable(Sub(s, 1), "sin"),
                       EVariable(Sub(s, 1), "h"), ENum(Sub(s, 1), "5"),
                       ECall(Sub(s, 1), "NormalCall", "f", <<>>)},
            cs \in SeqsUpTo(OperandCodes, MaxArgs)}
    \cup {<<EVariable(Sub(s, 1), "sin"),
            ECall(Sub(s, 2), "NormalCall", "sin", <<EList(Sub(Sub(s, 2), 1), <<>>)>>)>>}

\* the signatures a program can have registered
SignatureChoices ==
    {FunctionSignature(<<>>, Number), FunctionSignature(<<Number>>, Number),
     FunctionSignature(<<List>>, Number), FunctionSignature(<<Number, List>>, List),
     FunctionSignature(<<Number, Number, Number>>, Number)}
DefinedChoices ==
    {EmptyMap}
    \cup {[k \in {"f"} |-> sig] : sig \in SignatureChoices}
    \cup {[k \in {"f", "mod"} |-> sig] : sig \in {FunctionSignature(<<Number>>, List)}}

(***************************************************************************)
(* The statements of the programs compiled.                                *)
(***************************************************************************)
StmtSpan == <<0>>
Param(name, type) == [name |-> name, type |-> type]
ParamLists ==
    {<<>>, <<Param("a", Number)>>, <<Param("a", List), Param("b", Number)>>}
Bodies ==
    {ENum(RootSpan, "1"), EVariable(RootSpan, "a"), EVariable(RootSpan, "z"),
     EList(RootSpan, <<EVariable(Sub(RootSpan, 1), "b")>>),
     ECall(RootSpan, "NormalCall", "f", <<EVariable(Sub(RootSpan, 1), "a")>>),
     ECall(RootSpan, "NormalCall", "mod", <<EVariable(Sub(RootSpan, 1), "a")>>),
     EBinaryExpr(RootSpan,
                 ECall(Sub(RootSpan, 1), "NormalCall", "f", <<ENum(Sub(Sub(RootSpan, 1), 1), "1")>>),
                 "Add", ENum(Sub(RootSpan, 2), "2"))}
FuncDefs ==
    {SFuncDef(StmtSpan, FunctionDefinition(name, args, ann), e) :
        name \in {"f", "mod"}, args \in ParamLists, ann \in {NoAnnotation, List}, e \in Bodies}
StmtExprs ==
    {ENum(RootSpan, "1"), EVariable(RootSpan, "a"), EVariable(RootSpan, "b"),
     EVariable(RootSpan, "x"),
     EBinaryExpr(RootSpan, ENum(Sub(RootSpan, 1), "1"), "Mod", ENum(Sub(RootSpan, 2), "2")),
     ECall(RootSpan, "MapCall", "f", <<>>),
     EUnaryExpr(RootSpan, EVariable(Sub(RootSpan, 1), "a"), "Factorial"),
     EList(RootSpan, <<EVariable(Sub(RootSpan, 1), "b"), ENum(Sub(RootSpan, 2), "2")>>),
     PiecewiseAt(RootSpan, "a", "LessThan", "[3]", "x", "1", <<"lt">>)}
    \cup {ECall(RootSpan, "NormalCall", f, [i \in 1..Len(cs) |-> OperandAt(Sub(RootSpan, i), cs[i])]) :
            f \in {"f", "mod"}, cs \in {<<>>, <<"1">>, <<"[3]">>, <<"1", "2">>, <<"[3]", "1">>}}

(***************************************************************************)
(* State machine.  result keeps what the caller sees of a Result.          *)
(***************************************************************************)
Returned(r) ==
    [status |-> r.status, latex |-> r.latex, type |-> r.type, err |-> r.err, span |-> r.span,
     trace |-> r.trace]
ctx == Context(variables, locals, defined_functions, inside_map_macro)
Leaves(r) ==
    /\ variables' = r.ctx.variables
    /\ locals' = r.ctx.locals
    /\ defined_functions' = r.ctx.defined_functions
    /\ inside_map_macro' = r.ctx.inside_map_macro
    /\ result' = Returned(r)

\* Context::new(), then the caller's globals
Init ==
    /\ variables \in GlobalChoices
    /\ locals = EmptyMap
    /\ defined_functions = EmptyMap
    /\ inside_map_macro = FALSE
    /\ call = [op |-> "new"]
    /\ result = Returned(NoResult)
    /\ declared = {}
    /\ steps = 0
    /\ registered = {}
    /\ other = [ctx |-> ctx, result |-> Returned(NoResult), steps |-> 0]

Running == result.status # "Panic"

CompileStmtExpression(e) ==
    /\ Running
    /\ steps < MaxStmts
    /\ call' = [op |-> "compile_stmt", stmt |-> SExpression(e)]
    /\ Leaves(compile_stmt(ctx, SExpression(e)))
    /\ steps' = steps + 1
    /\ UNCHANGED <<declared, registered, other>>

CompileStmtFuncDef(stmt) ==
    /\ Running
    /\ steps < MaxStmts
    /\ call' = [op |-> "compile_stmt", stmt |-> stmt]
    /\ Leaves(compile_stmt(ctx, stmt))
    /\ declared' = IF result'.status = "Ok"
                   THEN declared \cup ({stmt.fdef.args[i].name : i \in 1..Len(stmt.fdef.args)}
                                       \ DOMAIN locals)
                   ELSE declared
    /\ registered' = IF result'.status = "Ok"
                     THEN registered \cup {[name |-> stmt.fdef.name,
                                            sig |-> defined_functions'[stmt.fdef.name]]}
                     ELSE registered
    /\ steps' = steps + 1
    /\ UNCHANGED other

Next ==
    \/ \E e \in StmtExprs : CompileStmtExpression(e)
    \/ \E stmt \in FuncDefs : CompileStmtFuncDef(stmt)

Spec == Init /\ [][Next]_vars

(***************************************************************************)
(* Two Contexts created alike: a statement is compiled on the first, then  *)
(* on the second, before the next statement is taken.                      *)
(***************************************************************************)
OtherCompileStmt ==
    /\ other.steps < steps
    /\ other' = [ctx |-> compile_stmt(other.ctx, call.stmt).ctx,
                 result |-> Returned(compile_stmt(other.ctx, call.stmt)),
                 steps |-> other.steps + 1]
    /\ UNCHANGED <<variables, locals, defined_functions, inside_map_macro, call, result,
                   declared, steps, registered>>

NextTwin ==
    \/ \E e \in StmtExprs : other.steps = steps /\ CompileStmtExpression(e)
    \/ \E stmt \in FuncDefs : other.steps = steps /\ CompileStmtFuncDef(stmt)
    \/ OtherCompileStmt

SpecTwin == Init /\ [][NextTwin]_vars

(***************************************************************************)
(* The functions of the compiler called one at a time on a Context a       *)
(* program has left behind.                                                *)
(***************************************************************************)
ApiSpan == <<1>>
InitApi ==
    /\ variables \in GlobalChoices
    /\ locals \in {EmptyMap, [k \in {"a"} |-> Number]}
    /\ defined_functions \in DefinedChoices
    /\ inside_map_macro = FALSE
    /\ call = [op |-> "new"]
    /\ result = Returned(NoResult)
    /\ declared = {}
    /\ steps = 0
    /\ registered = {}
    /\ other = [ctx |-> ctx, result |-> Returned(NoResult), steps |-> 0]

Fresh == call.op = "new"

CompileExpr(e) ==
    /\ Fresh
    /\ call' = [op |-> "compile_expr", expr |-> e]
    /\ Leaves(compile_expr(ctx, e))
    /\ UNCHANGED <<declared, steps, registered, other>>

CompileCall(span, fname, args) ==
    /\ Fresh
    /\ call' = [op |-> "compile_call", span |-> span, fname |-> fname, args |-> args]
    /\ Leaves(compile_call(ctx, span, fname, args))
    /\ UNCHANGED <<declared, steps, registered, other>>

HandleMacro(span, name, args) ==
    /\ Fresh
    /\ call' = [op |-> "handle_macro", span |-> span, name |-> name, args |-> args]
    /\ Leaves(handle_macro(ctx, span, name, args))
    /\ UNCHANGED <<declared, steps, registered, other>>

HandleMapMacro(span, args) ==
    /\ Fresh
    /\ call' = [op |-> "handle_map_macro", span |-> span, args |-> args]
    /\ Leaves(handle_map_macro(ctx, span, args))
    /\ UNCHANGED <<declared, steps, registered, other>>

\* the inputs of the calls, all located at ApiSpan
ApiExprs == ExprInputs(ApiSpan)
ApiCallArgs == CompiledArgs(ApiSpan, MaxArgs + 1)
ApiMacroArgs == MacroArgs(ApiSpan)

NextApi ==
    \/ \E e \in ApiExprs : CompileExpr(e)
    \/ \E f \in FuncNames, args \in ApiCallArgs : CompileCall(ApiSpan, f, args)
    \/ \E name \in {"map", "filter"}, args \in ApiMacroArgs : HandleMacro(ApiSpan, name, args)
    \/ \E args \in ApiMacroArgs : HandleMapMacro(ApiSpan, args)

SpecApi == InitApi /\ [][NextApi]_vars

(***************************************************************************)
(* core/latex.rs: the renderer.  A String is the sequence of its           *)
(* characters; chars gives the characters of the identifiers and numbers   *)
(* that occur in the trees drawn below.                                    *)
(***************************************************************************)
chars(v) ==
    CASE v = "" -> <<>>
      [] v \in {"1", "2", "3", "4", "5", "6", "x", "a", "b", "z", "f", "h"} -> <<v>>
      [] v = "ab" -> <<"a", "b">>
      [] v = "sin" -> <<"s", "i", "n">>
      [] v = "mod" -> <<"m", "o", "d">>
      [] v = "foo" -> <<"f", "o", "o">>

\* the fixed texts of the format strings
LeftParenText == <<"\\", "l", "e", "f", "t", "(">>
RightParenText == <<"\\", "r", "i", "g", "h", "t", ")">>
LeftBraceText == <<"\\", "l", "e", "f", "t", "\\", "{">>
RightBraceText == <<"\\", "r", "i", "g", "h", "t", "\\", "}">>
CdotText == <<"\\", "c", "d", "o", "t", " ">>
FracText == <<"\\", "f", "r", "a", "c">>

\* Vec<String>::join and Iterator::collect::<String>
RECURSIVE join(_, _)
join(v, sep) ==
    IF v = <<>> THEN <<>>
    ELSE IF Len(v) = 1 THEN v[1]
         ELSE v[1] \o sep \o join(Tail(v), sep)
RECURSIVE collect(_)
collect(v) == IF v = <<>> THEN <<>> ELSE Head(v) \o collect(Tail(v))

format_latex_identifier(v) ==
    IF chars(v) = <<>> THEN <<>>
    ELSE IF Tail(chars(v)) = <<>> THEN <<Head(chars(v))>>
         ELSE <<Head(chars(v))>> \o <<"_", "{">> \o Tail(chars(v)) \o <<"}">>

compareop_to_str(op) ==
    CASE op = "Equal" -> <<"=">>
      [] op = "GreaterThan" -> <<">">>
      [] op = "LessThan" -> <<"<">>
      [] op = "GreaterThanEqual" -> <<"\\", "l", "e">>
      [] op = "LessThanEqual" -> <<"\\", "g", "e">>

\* binaryoperator_to_str once both operands are rendered (ls, rs)
binaryoperator_str(left, operator, right, ls, rs) ==
    CASE operator = "Add" -> ls \o <<"+">> \o rs
      [] operator = "Subtract" -> ls \o <<"-">> \o rs
      [] operator = "Multiply" ->
            IF left.tag = "Num" /\ right.tag = "Num" THEN ls \o CdotText \o rs
            ELSE ls \o rs
      [] operator = "Divide" -> FracText \o <<"{">> \o ls \o <<"}", "{">> \o rs \o <<"}">>

RECURSIVE latex_to_str(_)
RECURSIVE multi_latex_to_str(_)
RECURSIVE binaryoperator_to_str(_, _, _)
RECURSIVE cond_to_str(_)

multi_latex_to_str(items) == [i \in 1..Len(items) |-> latex_to_str(items[i])]

binaryoperator_to_str(left, operator, right) ==
    binaryoperator_str(left, operator, right, latex_to_str(left), latex_to_str(right))

cond_to_str(cond) ==
    latex_to_str(cond.left) \o compareop_to_str(cond.op) \o latex_to_str(cond.right)
        \o <<":">> \o latex_to_str(cond.result)

latex_to_str(l) ==
    CASE l.tag = "Variable" -> format_latex_identifier(l.val)
      [] l.tag = "Num" -> chars(l.val)
      [] l.tag = "Call" ->
            (IF l.is_builtin THEN <<"\\">> ELSE <<>>) \o chars(l.func) \o LeftParenText
                \o join(multi_latex_to_str(l.args), <<",">>) \o RightParenText
      [] l.tag = "BinaryExpression" -> binaryoperator_to_str(l.left, l.operator, l.right)
      [] l.tag = "UnaryExpression" -> latex_to_str(l.left) \o <<"!">>
      [] l.tag = "List" -> join(multi_latex_to_str(l.items), <<",">>)
      [] l.tag = "Assignment" -> latex_to_str(l.left) \o <<"=">> \o latex_to_str(l.right)
      [] l.tag = "FuncDef" ->
            chars(l.name) \o LeftParenText
                \o join([i \in 1..Len(l.args) |-> format_latex_identifier(l.args[i])], <<",">>)
                \o RightParenText \o <<"=">> \o latex_to_str(l.body)
      [] l.tag = "Piecewise" ->
            LeftBraceText \o cond_to_str(l.first) \o <<",">>
                \o collect([i \in 1..Len(l.rest) |-> cond_to_str(l.rest[i]) \o <<",">>])
                \o latex_to_str(l.default) \o RightBraceText

\* the trees the renderer is given: identifiers of no, one and several
\* characters, calls of builtins and of user functions, every operator and
\* comparator, rest sequences in both orders
RenderIdents == {"", "x", "ab", "foo"}
RenderAtoms == {LVariable("x"), LVariable("ab"), LNum("1"), LNum("2")}
RenderConds ==
    {Cond(l, op, r, res) :
        l \in {LNum("1"), LVariable("ab")}, op \in CompareOperator, r \in {LNum("2")},
        res \in {LVariable("x"), LList(<<LNum("3")>>)}}
RenderRest ==
    SeqsUpTo({Cond(LNum("4"), "GreaterThanEqual", LNum("5"), LNum("6")),
              Cond(LVariable("x"), "LessThan", LNum("1"), LVariable("ab"))}, MaxArgs)
RenderInputs ==
    {LVariable(v) : v \in RenderIdents}
    \cup {LNum("1")}
    \cup {LCall(f, b, args) :
            f \in {"f", "foo", "sin", "mod"}, b \in BOOLEAN, args \in SeqsUpTo(RenderAtoms, MaxArgs)}
    \cup {LBinaryExpression(l, op, r) :
            l \in RenderAtoms, op \in BinaryOperator \ {"Mod"},
            r \in RenderAtoms \cup {LBinaryExpression(LNum("1"), "Multiply", LNum("2"))}}
    \cup {LUnaryExpression(v, "Factorial") : v \in RenderAtoms}
    \cup {LList(items) : items \in SeqsUpTo(RenderAtoms, MaxArgs)}
    \cup {LAssignment(LVariable(v), r) : v \in RenderIdents, r \in RenderAtoms}
    \cup {LFuncDef(name, args, body) :
            name \in {"f", "foo", "mod"}, args \in SeqsUpTo({"x", "ab"}, MaxArgs),
            body \in {LNum("1"), LVariable("ab"), LCall("foo", FALSE, <<LVariable("x")>>)}}
    \cup {LPiecewise(first, rest, LNum("3")) : first \in RenderConds, rest \in RenderRest}

\* what a function of the renderer returned
Rendered(text) == [status |-> "Ok", text |-> text]

InitRender == Init /\ variables = EmptyMap

FormatLatexIdentifier(v) ==
    /\ Fresh
    /\ call' = [op |-> "format_latex_identifier", v |-> v]
    /\ result' = Rendered(format_latex_identifier(v))
    /\ UNCHANGED <<variables, locals, defined_functions, inside_map_macro, declared, steps,
                   registered, other>>

CompareopToStr(op) ==
    /\ Fresh
    /\ call' = [op |-> "compareop_to_str", cmp |-> op]
    /\ result' = Rendered(compareop_to_str(op))
    /\ UNCHANGED <<variables, locals, defined_functions, inside_map_macro, declared, steps,
                   registered, other>>

CondToStr(cond) ==
    /\ Fresh
    /\ call' = [op |-> "cond_to_str", cond |-> cond]
    /\ result' = Rendered(cond_to_str(cond))
    /\ UNCHANGED <<variables, locals, defined_functions, inside_map_macro, declared, steps,
                   registered, other>>

LatexToStr(l) ==
    /\ Fresh
    /\ call' = [op |-> "latex_to_str", l |-> l]
    /\ result' = Rendered(latex_to_str(l))
    /\ UNCHANGED <<variables, locals, defined_functions, inside_map_macro, declared, steps,
                   registered, other>>

NextRender ==
    \/ \E v \in RenderIdents : FormatLatexIdentifier(v)
    \/ \E op \in CompareOperator : CompareopToStr(op)
    \/ \E cond \in RenderConds : CondToStr(cond)
    \/ \E l \in RenderInputs : LatexToStr(l)

SpecRender == InitRender /\ [][NextRender]_vars

TypeOK ==
    /\ DOMAIN variables \subseteq {"x", "a"}
    /\ result.status \in {"None", "Ok", "Err", "Panic"}
    /\ inside_map_macro \in BOOLEAN

(***************************************************************************)
(* Properties.                                                             *)
(***************************************************************************)
IsStmt(c, tag) == c.op = "compile_stmt" /\ c.stmt.tag = tag
ParamNames(fdef) == {fdef.args[i].name : i \in 1..Len(fdef.args)}

\* C1: compile_stmt on a function definition leaves locals equal to the
\* snapshot taken on entry, whatever the outcome (success, an error in the
\* body, a return-annotation TypeMismatch); so locals never changes over a
\* sequence of compile_stmt calls.
C1_LocalsRestored ==
    [][IsStmt(call', "FuncDef") => locals' = locals]_vars

\* C2: once a definition with parameter a has compiled (a not a global and
\* not in locals before it), a later statement that is the bare reference a
\* fails with UndefinedVariable(a) at the reference's span.
C2_ParameterOutOfScope ==
    [][(/\ IsStmt(call', "Expression")
        /\ call'.stmt.e.tag = "Variable"
        /\ call'.stmt.e.val \in declared
        /\ call'.stmt.e.val \notin DOMAIN variables)
       => (/\ result'.status = "Err"
           /\ result'.err = UndefinedVariable(call'.stmt.e.val)
           /\ result'.span = call'.stmt.e.span)]_vars

\* the call of the function being defined: the body, or the left operand of
\* the body
InnerCall(e) == IF e.tag = "BinaryExpr" THEN e.left ELSE e
Resolvable(e, fdef) ==
    \/ e.tag = "Num"
    \/ e.tag = "Variable" /\ e.val \in DOMAIN variables \cup DOMAIN locals \cup ParamNames(fdef)
SelfCall(c) ==
    /\ IsStmt(c, "FuncDef")
    /\ InnerCall(c.stmt.e).tag = "Call"
    /\ InnerCall(c.stmt.e).modifier = "NormalCall"
    /\ InnerCall(c.stmt.e).func = c.stmt.fdef.name
    /\ \A i \in 1..Len(InnerCall(c.stmt.e).args) :
            Resolvable(InnerCall(c.stmt.e).args[i], c.stmt.fdef)

\* C3: a definition whose body calls the function being defined (a name that
\* is neither a builtin nor registered, arguments that compile) fails with
\* UnknownFunction(name) at the inner call's span and registers nothing.
C3_NoSelfRecursion ==
    [][(/\ SelfCall(call')
        /\ call'.stmt.fdef.name \notin DOMAIN BUILTIN_FUNCTIONS
        /\ call'.stmt.fdef.name \notin DOMAIN defined_functions)
       => (/\ result'.status = "Err"
           /\ result'.err = UnknownFunction(call'.stmt.fdef.name)
           /\ result'.span = InnerCall(call'.stmt.e).span
           /\ defined_functions' = defined_functions)]_vars

W_C3 ==
    /\ SelfCall(call)
    /\ call.stmt.fdef.name \notin DOMAIN BUILTIN_FUNCTIONS
    /\ call.stmt.fdef.name \notin DOMAIN defined_functions
    /\ result.err = UnknownFunction(call.stmt.fdef.name)
    /\ result.span = Sub(RootSpan, 1)
    /\ steps > 1

\* the signature a name stands for in the current Context
Known(name) == name \in DOMAIN defined_functions \cup DOMAIN BUILTIN_FUNCTIONS
SignatureOf(name) ==
    IF name \in DOMAIN defined_functions THEN defined_functions[name] ELSE BUILTIN_FUNCTIONS[name]
Least(S) == CHOOSE i \in S : \A j \in S : i <= j
CompilesTo(e, t) == compile_expr(ctx, e).status = "Ok" /\ compile_expr(ctx, e).type = t
LatexOf(e) == compile_expr(ctx, e).latex
Failed(r, kind, span) == r.status = "Err" /\ r.err = kind /\ r.span = span

\* a call of a function: compile_call itself, or a normal call expression
\* whose arguments all compile
IsCall(c) ==
    \/ c.op = "compile_call"
    \/ /\ c.op = "compile_expr"
       /\ c.expr.tag = "Call"
       /\ c.expr.modifier = "NormalCall"
       /\ \A i \in 1..Len(c.expr.args) : compile_expr(ctx, c.expr.args[i]).status = "Ok"
CallName(c) == IF c.op = "compile_call" THEN c.fname ELSE c.expr.func
CallSpan(c) == IF c.op = "compile_call" THEN c.span ELSE c.expr.span
CallArgs(c) ==
    IF c.op = "compile_call" THEN c.args
    ELSE [i \in 1..Len(c.expr.args) |->
            [span |-> c.expr.args[i].span, latex |-> LatexOf(c.expr.args[i]),
             type |-> compile_expr(ctx, c.expr.args[i]).type]]
Mismatches(args, sig) ==
    {i \in 1..Len(args) : i <= Len(sig.args) /\ args[i].type # sig.args[i]}

\* C4: a call of a resolved function succeeds only with exactly as many
\* arguments as the signature has parameters; any other count gives
\* WrongArgCount{got, expected} at the call's span (never an argument's),
\* also when an argument has the wrong type.
C4_ArityBeforeTypes ==
    (IsCall(call) /\ Known(CallName(call))) =>
        LET args == CallArgs(call)
            sig == SignatureOf(CallName(call))
        IN /\ result.status = "Ok" => Len(args) = Len(sig.args)
           /\ Len(args) # Len(sig.args) =>
                /\ Failed(result, WrongArgCount(Len(args), Len(sig.args)), CallSpan(call))
                /\ \A i \in 1..Len(args) : result.span # args[i].span

W_C4 ==
    /\ call.op = "compile_call"
    /\ call.fname \in DOMAIN defined_functions
    /\ Len(call.args) > Len(SignatureOf(call.fname).args)
    /\ Mismatches(call.args, SignatureOf(call.fname)) # {}
    /\ result.err.kind = "WrongArgCount"

\* C5: outside macro mode a call with the right number of arguments succeeds
\* iff every argument has the type of the parameter at its position, and
\* otherwise fails with TypeMismatch{got, expected} at the span of the
\* leftmost mismatching argument; the Call node holds the arguments in order.
C5_PositionalTypes ==
    (/\ IsCall(call) /\ ~inside_map_macro /\ Known(CallName(call))
     /\ Len(CallArgs(call)) = Len(SignatureOf(CallName(call)).args)) =>
        LET args == CallArgs(call)
            sig == SignatureOf(CallName(call))
            bad == Mismatches(args, sig)
        IN IF bad = {}
           THEN /\ result.status = "Ok"
                /\ result.latex.tag = "Call"
                /\ result.latex.func = CallName(call)
                /\ result.latex.args = [i \in 1..Len(args) |-> args[i].latex]
           ELSE Failed(result,
                       TypeMismatch(args[Least(bad)].type, sig.args[Least(bad)]),
                       args[Least(bad)].span)

W_C5 ==
    /\ call.op = "compile_call"
    /\ Len(call.args) = 2
    /\ Known(call.fname)
    /\ Mismatches(call.args, SignatureOf(call.fname)) = {1, 2}
    /\ result.err.kind = "TypeMismatch"
    /\ result.span = call.args[1].span

IsMap(c) == c.op = "handle_map_macro" \/ (c.op = "handle_macro" /\ c.name = "map")

\* C6: for f with one parameter declared Number and an argument that
\* compiles to List, map(f, arg) succeeds and the normal call f(arg) fails
\* with TypeMismatch{got: List, expected: Number} at the argument's span.
C6_MapAcceptsList ==
    /\ (/\ IsMap(call) /\ Len(call.args) = 2 /\ call.args[1].tag = "Variable"
        /\ Known(call.args[1].val) /\ SignatureOf(call.args[1].val).args = <<Number>>
        /\ CompilesTo(call.args[2], List))
       => result.status = "Ok"
    /\ (/\ call.op = "compile_expr" /\ call.expr.tag = "Call"
        /\ call.expr.modifier = "NormalCall" /\ Len(call.expr.args) = 1
        /\ Known(call.expr.func) /\ SignatureOf(call.expr.func).args = <<Number>>
        /\ CompilesTo(call.expr.args[1], List))
       => Failed(result, TypeMismatch(List, Number), call.expr.args[1].span)

W_C6 ==
    /\ IsMap(call) /\ Len(call.args) = 2 /\ call.args[1].tag = "Variable"
    /\ call.args[1].val \in DOMAIN defined_functions
    /\ SignatureOf(call.args[1].val).args = <<Number>>
    /\ CompilesTo(call.args[2], List)
    /\ result.status = "Ok"
    /\ result.latex.args = <<LatexOf(call.args[2])>>

InTrace(span, trace) == \E i \in 1..Len(trace) : trace[i] = span

\* C7: handle_map_macro gives BadMapMacro at the macro's span for fewer than
\* 2 arguments; else ExpectedFunction at the first argument's span when that
\* is not a bare variable, no remaining argument having been compiled; a bare
\* variable is taken as the callee name and never looked up as a variable.
\* handle_macro gives UndefinedMacro(name) for every name but map.
C7_MapMacroShape ==
    /\ (call.op = "handle_macro" /\ call.name # "map")
       => Failed(result, UndefinedMacro(call.name), call.span)
    /\ (IsMap(call) /\ Len(call.args) < 2) => Failed(result, BadMapMacro, call.span)
    /\ (IsMap(call) /\ Len(call.args) >= 2 /\ call.args[1].tag # "Variable")
       => Failed(result, ExpectedFunction, call.args[1].span) /\ result.trace = <<>>
    /\ (IsMap(call) /\ Len(call.args) >= 2 /\ call.args[1].tag = "Variable")
       => /\ ~InTrace(call.args[1].span, result.trace)
          /\ result.span # call.args[1].span
          /\ result.status = "Ok" => result.latex.func = call.args[1].val
          /\ (/\ \A i \in 2..Len(call.args) : compile_expr(ctx, call.args[i]).status = "Ok"
              /\ ~Known(call.args[1].val))
             => Failed(result, UnknownFunction(call.args[1].val), call.span)

W_C7 ==
    /\ IsMap(call) /\ Len(call.args) >= 2
    /\ call.args[1].tag # "Variable"
    /\ compile_expr(ctx, call.args[2]).status = "Err"
    /\ result.err = ExpectedFunction

\* C8: a binary expression whose left operand compiles to List fails with
\* TypeMismatch{got: List, expected: Number} at the left operand's own span,
\* the right operand not having been compiled; with a Number left operand
\* and a List right operand it fails at the right operand's own span.
C8_OperandSpan ==
    (call.op = "compile_expr" /\ call.expr.tag = "BinaryExpr") =>
        /\ CompilesTo(call.expr.left, List)
           => /\ Failed(result, TypeMismatch(List, Number), call.expr.left.span)
              /\ ~InTrace(call.expr.right.span, result.trace)
        /\ (CompilesTo(call.expr.left, Number) /\ CompilesTo(call.expr.right, List))
           => Failed(result, TypeMismatch(List, Number), call.expr.right.span)

\* C9: a binary expression over two Number operands compiles to type Number:
\* mod to the builtin Call mod(left, right) whatever defined_functions holds,
\* every other operator to the BinaryExpression of the same name; no binary
\* expression reaches the unreachable arm of binop_to_latex.
C9_ModIsBuiltinCall ==
    (call.op = "compile_expr" /\ call.expr.tag = "BinaryExpr") =>
        /\ result.status # "Panic"
        /\ (CompilesTo(call.expr.left, Number) /\ CompilesTo(call.expr.right, Number))
           => /\ result.status = "Ok"
              /\ result.type = Number
              /\ result.latex =
                    IF call.expr.operator = "Mod"
                    THEN LCall("mod", TRUE, <<LatexOf(call.expr.left), LatexOf(call.expr.right)>>)
                    ELSE LBinaryExpression(LatexOf(call.expr.left), call.expr.operator,
                                           LatexOf(call.expr.right))

W_C9 ==
    /\ call.op = "compile_expr" /\ call.expr.tag = "BinaryExpr"
    /\ call.expr.operator = "Mod"
    /\ "mod" \in DOMAIN defined_functions
    /\ Len(defined_functions["mod"].args) # 2
    /\ result.status = "Ok"
    /\ result.latex.is_builtin

\* C10: a list whose elements all compile is of type List, with the compiled
\* elements in order, iff every element is a Number; otherwise it fails with
\* NoNestedList at the span of the leftmost List element.  Every expression
\* that compiles has type Number or List.
C10_FlatLists ==
    /\ (call.op = "compile_expr" /\ result.status = "Ok") => result.type \in ValType
    /\ (/\ call.op = "compile_expr" /\ call.expr.tag = "List"
        /\ \A i \in 1..Len(call.expr.values) :
                compile_expr(ctx, call.expr.values[i]).status = "Ok")
       => LET values == call.expr.values
              nested == {i \in 1..Len(values) : CompilesTo(values[i], List)}
          IN IF nested = {}
             THEN /\ result.status = "Ok"
                  /\ result.type = List
                  /\ result.latex = LList([i \in 1..Len(values) |-> LatexOf(values[i])])
             ELSE Failed(result, NoNestedList, values[Least(nested)].span)

W_C10 ==
    /\ call.op = "compile_expr" /\ call.expr.tag = "List"
    /\ Len(call.expr.values) = 2
    /\ CompilesTo(call.expr.values[1], Number)
    /\ CompilesTo(call.expr.values[2], List)
    /\ Failed(result, NoNestedList, call.expr.values[2].span)

\* the Cond a branch stands for: its comparator, and its left, right and
\* result as they compile on their own
IsPiecewise(c) == c.op = "compile_expr" /\ c.expr.tag = "Piecewise"
CondOf(b) == Cond(LatexOf(b.cond_left), b.cond, LatexOf(b.cond_right), LatexOf(b.val))

\* C11: a piecewise expression that compiles yields a Piecewise node whose
\* first Cond is the first branch's, whose rest has one Cond per rest branch
\* in the original order, each Cond with its branch's comparator unchanged
\* and that branch's compiled left, right and result.
C11_PiecewiseShape ==
    (IsPiecewise(call) /\ result.status = "Ok") =>
        /\ result.latex.tag = "Piecewise"
        /\ result.latex.first = CondOf(call.expr.first)
        /\ Len(result.latex.rest) = Len(call.expr.rest)
        /\ \A i \in 1..Len(call.expr.rest) :
                /\ result.latex.rest[i] = CondOf(call.expr.rest[i])
                /\ result.latex.rest[i].op \in CompareOperator
        /\ result.latex.default = LatexOf(call.expr.default)

W_C11 ==
    /\ IsPiecewise(call) /\ result.status = "Ok"
    /\ Len(call.expr.rest) = 2
    /\ call.expr.first.cond = "Equal"
    /\ result.latex.rest[1].op = "GreaterThanEqual"
    /\ result.latex.rest[2].op = "LessThan"
    /\ result.latex.rest[1].right.tag = "List"

\* a definition's declared parameter types and names, in declaration order
ParamTypes(fdef) == [i \in 1..Len(fdef.args) |-> fdef.args[i].type]
ParamSeq(fdef) == [i \in 1..Len(fdef.args) |-> fdef.args[i].name]
\* the Context a statement's expression is compiled in, and what the body of
\* a definition compiles to there
Scope(c) ==
    IF c.stmt.tag = "FuncDef"
    THEN [ctx EXCEPT !.locals = insert_args(locals, c.stmt.fdef.args)]
    ELSE ctx
BodyResult(c) == compile_expr(Scope(c), c.stmt.e)
\* a statement that is a normal call, or a definition whose body is one, the
\* arguments compiling
CallsName(c, n) ==
    /\ c.op = "compile_stmt"
    /\ c.stmt.e.tag = "Call" /\ c.stmt.e.modifier = "NormalCall" /\ c.stmt.e.func = n
    /\ \A i \in 1..Len(c.stmt.e.args) : compile_expr(Scope(c), c.stmt.e.args[i]).status = "Ok"
StmtArgs(c) ==
    [i \in 1..Len(c.stmt.e.args) |->
        [span |-> c.stmt.e.args[i].span,
         latex |-> compile_expr(Scope(c), c.stmt.e.args[i]).latex,
         type |-> compile_expr(Scope(c), c.stmt.e.args[i]).type]]
\* the statement c, a call of a function of signature sig, returned r and
\* left the functions d: arity, then positional types, then the return type
CheckedAgainst(c, r, d, sig) ==
    LET args == StmtArgs(c)
        bad == Mismatches(args, sig)
    IN IF Len(args) # Len(sig.args)
       THEN Failed(r, WrongArgCount(Len(args), Len(sig.args)), c.stmt.e.span)
       ELSE IF bad # {}
            THEN Failed(r, TypeMismatch(args[Least(bad)].type, sig.args[Least(bad)]),
                        args[Least(bad)].span)
            ELSE IF c.stmt.tag = "Expression"
                 THEN r.status = "Ok" /\ r.latex.tag = "Call"
                 ELSE IF c.stmt.fdef.ret_annotation \in {NoAnnotation, sig.ret}
                      THEN r.status = "Ok" /\ d[c.stmt.fdef.name].ret = sig.ret
                      ELSE Failed(r, TypeMismatch(sig.ret, c.stmt.fdef.ret_annotation),
                                  c.stmt.e.span)

\* C12: a definition that compiles registers, under its name, the declared
\* parameter types in order with the body's inferred type, and emits the
\* FuncDef node of the name, the parameter names in order and the compiled
\* body; every later statement calling the name is checked against exactly
\* the signature that definition registered and receives its return type.
C12_RegisteredSignature ==
    [][/\ (IsStmt(call', "FuncDef") /\ result'.status = "Ok")
          => /\ call'.stmt.fdef.name \in DOMAIN defined_functions'
             /\ defined_functions'[call'.stmt.fdef.name] =
                    FunctionSignature(ParamTypes(call'.stmt.fdef), BodyResult(call').type)
             /\ result'.latex = LFuncDef(call'.stmt.fdef.name, ParamSeq(call'.stmt.fdef),
                                         BodyResult(call').latex)
       /\ \A p \in registered :
            CallsName(call', p.name)
                => CheckedAgainst(call', result', defined_functions', p.sig)]_vars

\* C13: a definition whose return annotation differs from the body's inferred
\* type fails with TypeMismatch{got: inferred, expected: annotated} at the
\* body's span; that statement, and every other statement that fails, leaves
\* defined_functions exactly as it was.
C13_FailureFrame ==
    [][/\ (call'.op = "compile_stmt" /\ result'.status # "Ok")
          => defined_functions' = defined_functions
       /\ (/\ IsStmt(call', "FuncDef")
           /\ BodyResult(call').status = "Ok"
           /\ call'.stmt.fdef.ret_annotation \notin {NoAnnotation, BodyResult(call').type})
          => Failed(result',
                    TypeMismatch(BodyResult(call').type, call'.stmt.fdef.ret_annotation),
                    call'.stmt.e.span)]_vars

W_C13 ==
    /\ IsStmt(call, "FuncDef")
    /\ Failed(result, TypeMismatch(Number, List), call.stmt.e.span)
    /\ call.stmt.fdef.name \in DOMAIN defined_functions
    /\ Len(defined_functions[call.stmt.fdef.name].args) # Len(call.stmt.fdef.args)

\* C14: defined_functions is append-only over a sequence of compile_stmt
\* calls: a registered name stays registered and keeps its signature, also
\* when a later statement defines a function of the same name.
C14_AppendOnly ==
    [][\A n \in DOMAIN defined_functions :
            /\ n \in DOMAIN defined_functions'
            /\ defined_functions'[n] = defined_functions[n]]_vars

TypedAs(c, r, d, t) ==
    IF c.stmt.tag = "Expression"
    THEN r.status = "Ok" /\ r.latex = LVariable(c.stmt.e.val)
    ELSE IF c.stmt.fdef.ret_annotation \in {NoAnnotation, t}
         THEN /\ r.status = "Ok"
              /\ r.latex.body = LVariable(c.stmt.e.val)
              /\ d[c.stmt.fdef.name].ret = t
         ELSE Failed(r, TypeMismatch(t, c.stmt.fdef.ret_annotation), c.stmt.e.span)

\* C16: a variable reference has the global's type when the name is a global,
\* otherwise the type in locals (inside a body: the parameters laid over the
\* locals), otherwise it fails with UndefinedVariable(name) at its span; so a
\* parameter named like a global of another type is typed as the global.
C16_GlobalsFirst ==
    [][(call'.op = "compile_stmt" /\ call'.stmt.e.tag = "Variable") =>
            IF call'.stmt.e.val \in DOMAIN variables
            THEN TypedAs(call', result', defined_functions', variables[call'.stmt.e.val])
            ELSE IF call'.stmt.e.val \in DOMAIN Scope(call').locals
                 THEN TypedAs(call', result', defined_functions',
                              Scope(call').locals[call'.stmt.e.val])
                 ELSE Failed(result', UndefinedVariable(call'.stmt.e.val),
                             call'.stmt.e.span)]_vars

W_C16 ==
    /\ IsStmt(call, "FuncDef") /\ call.stmt.e.tag = "Variable"
    /\ call.stmt.e.val \in DOMAIN variables
    /\ \E i \in 1..Len(call.stmt.fdef.args) :
            /\ call.stmt.fdef.args[i].name = call.stmt.e.val
            /\ call.stmt.fdef.args[i].type # variables[call.stmt.e.val]
    /\ result.status = "Ok"
    /\ defined_functions[call.stmt.fdef.name].ret = variables[call.stmt.e.val]

\* r is what a call at span, of a function of signature sig with the builtin
\* flag b, returns outside macro mode for the compiled arguments args
CallChecked(r, span, args, sig, b) ==
    IF Len(args) # Len(sig.args)
    THEN Failed(r, WrongArgCount(Len(args), Len(sig.args)), span)
    ELSE IF Mismatches(args, sig) # {}
         THEN Failed(r, TypeMismatch(args[Least(Mismatches(args, sig))].type,
                                     sig.args[Least(Mismatches(args, sig))]),
                     args[Least(Mismatches(args, sig))].span)
         ELSE /\ r.status = "Ok"
              /\ r.type = sig.ret
              /\ r.latex.tag = "Call"
              /\ r.latex.is_builtin = b

MapFailing(c) ==
    {i \in 2..Len(c.args) : compile_expr(ctx, c.args[i]).status # "Ok"}
MapArgs(c) ==
    [i \in 1..(Len(c.args) - 1) |->
        [span |-> c.args[i + 1].span, latex |-> LatexOf(c.args[i + 1]),
         type |-> compile_expr(ctx, c.args[i + 1]).type]]

\* C18: handle_map_macro leaves inside_map_macro as it found it, whatever it
\* returns; the flag is true only for the compile_call it makes, the
\* remaining arguments being compiled before, outside macro mode.  On a
\* Context created with the flag false the flag is false after every call.
C18_FlagRestored ==
    /\ ~inside_map_macro
    /\ IsMap(call) =>
            \A m \in BOOLEAN :
                handle_map_macro([ctx EXCEPT !.inside_map_macro = m], call.span, call.args)
                    .ctx.inside_map_macro = m
    /\ (IsMap(call) /\ Len(call.args) >= 2 /\ call.args[1].tag = "Variable"
            /\ MapFailing(call) # {})
        => /\ result.status = compile_expr(ctx, call.args[Least(MapFailing(call))]).status
           /\ result.err = compile_expr(ctx, call.args[Least(MapFailing(call))]).err
           /\ result.span = compile_expr(ctx, call.args[Least(MapFailing(call))]).span

W_C18 ==
    /\ IsMap(call) /\ Len(call.args) = 2
    /\ call.args[2].tag = "Call"
    /\ Failed(result, TypeMismatch(List, Number), call.args[2].args[1].span)
    /\ ~inside_map_macro

\* what a piecewise expression compiles, in the order the claim gives: for
\* each branch (first, then rest) its left (checked against Number), right
\* and result, then the default (checked against Number)
Branches(e) == <<e.first>> \o e.rest
PiecewiseSteps(e) ==
    [k \in 1..(3 * Len(Branches(e)) + 1) |->
        IF k = 3 * Len(Branches(e)) + 1 THEN [e |-> e.default, checked |-> TRUE]
        ELSE IF (k - 1) % 3 = 0
             THEN [e |-> Branches(e)[((k - 1) \div 3) + 1].cond_left, checked |-> TRUE]
             ELSE IF (k - 1) % 3 = 1
                  THEN [e |-> Branches(e)[((k - 1) \div 3) + 1].cond_right, checked |-> FALSE]
                  ELSE [e |-> Branches(e)[((k - 1) \div 3) + 1].val, checked |-> FALSE]]
StepFails(st) ==
    \/ compile_expr(ctx, st.e).status # "Ok"
    \/ st.checked /\ compile_expr(ctx, st.e).type # Number
\* the spans of the steps, as they follow one another in a trace
StepsIn(e, trace) ==
    SelectSeq(trace, LAMBDA sp : \E k \in DOMAIN PiecewiseSteps(e) : PiecewiseSteps(e)[k].e.span = sp)

\* C19: a piecewise expression compiles, to type Number, whenever every
\* branch's left operand and the default compile to Number and every right
\* operand and result compile, to whatever type.  Otherwise the error is the
\* one of the first step that fails, in the order first branch, rest
\* branches, default, and left, right, result inside a branch: the step's own
\* error, or TypeMismatch at the step's own span for a left operand or a
\* default that is not a Number; no later step is compiled.
C19_PiecewiseTyping ==
    IsPiecewise(call) =>
        LET st == PiecewiseSteps(call.expr)
            failing == {k \in DOMAIN st : StepFails(st[k])}
            last == IF failing = {} THEN Len(st) ELSE Least(failing)
        IN /\ StepsIn(call.expr, result.trace) = [k \in 1..last |-> st[k].e.span]
           /\ IF failing = {}
              THEN result.status = "Ok" /\ result.type = Number
              ELSE IF compile_expr(ctx, st[last].e).status # "Ok"
                   THEN /\ result.status = compile_expr(ctx, st[last].e).status
                        /\ result.err = compile_expr(ctx, st[last].e).err
                        /\ result.span = compile_expr(ctx, st[last].e).span
                   ELSE Failed(result,
                               TypeMismatch(compile_expr(ctx, st[last].e).type, Number),
                               st[last].e.span)

W_C19 ==
    /\ IsPiecewise(call)
    /\ CompilesTo(call.expr.first.cond_right, List)
    /\ CompilesTo(call.expr.first.val, List)
    /\ Len(call.expr.rest) = 2
    /\ result.status = "Ok"
    /\ result.type = Number

\* the arguments macro mode rejects: a Number where the parameter is a List
Rejected(args, sig) ==
    {i \in 1..Len(args) : i <= Len(sig.args) /\ args[i].type = Number /\ sig.args[i] = List}
\* r is what compile_call returns in macro mode for a function of signature
\* sig and as many compiled arguments args
RelaxedCheck(r, args, sig) ==
    IF Rejected(args, sig) # {}
    THEN Failed(r, TypeMismatch(Number, List), args[Least(Rejected(args, sig))].span)
    ELSE /\ r.status = "Ok"
         /\ r.type = sig.ret
         /\ r.latex.args = [i \in 1..Len(args) |-> args[i].latex]

\* C20: with the macro-mode flag set compile_call accepts a List where the
\* parameter is a Number, rejects a Number where the parameter is a List with
\* TypeMismatch{got: Number, expected: List} at that argument's span, and
\* returns the signature's return type whenever it succeeds; the same holds
\* of the call made by the map macro.
C20_OneWayRelaxation ==
    /\ (/\ call.op = "compile_call" /\ Known(call.fname)
        /\ Len(call.args) = Len(SignatureOf(call.fname).args))
       => RelaxedCheck(compile_call([ctx EXCEPT !.inside_map_macro = TRUE],
                                    call.span, call.fname, call.args),
                       call.args, SignatureOf(call.fname))
    /\ (/\ IsMap(call) /\ Len(call.args) >= 2 /\ call.args[1].tag = "Variable"
        /\ MapFailing(call) = {} /\ Known(call.args[1].val)
        /\ Len(call.args) - 1 = Len(SignatureOf(call.args[1].val).args))
       => RelaxedCheck(result, MapArgs(call), SignatureOf(call.args[1].val))

W_C20 ==
    /\ IsMap(call) /\ Len(call.args) = 3 /\ call.args[1].tag = "Variable"
    /\ Known(call.args[1].val)
    /\ SignatureOf(call.args[1].val).args = <<Number, List>>
    /\ CompilesTo(call.args[2], List)
    /\ CompilesTo(call.args[3], Number)
    /\ Failed(result, TypeMismatch(Number, List), call.args[3].span)


\* a normal call expression, its arguments that do not compile, and the spans
\* of its arguments as they follow one another in a trace
IsNormalCall(c) ==
    c.op = "compile_expr" /\ c.expr.tag = "Call" /\ c.expr.modifier = "NormalCall"
ArgFailing(e) == {i \in 1..Len(e.args) : compile_expr(ctx, e.args[i]).status # "Ok"}
ArgsIn(e, trace) ==
    SelectSeq(trace, LAMBDA sp : \E i \in 1..Len(e.args) : e.args[i].span = sp)

\* C21: compile_expr on a normal call compiles every argument, left to right,
\* before the callee is resolved and before any arity or type check: when an
\* argument fails to compile the call returns the error of the leftmost such
\* argument, no later argument having been compiled, whatever the callee
\* (unknown, of another arity, or rejecting an earlier argument's type);
\* when all compile the call returns what compile_call returns for the
\* compiled arguments.  A call with the map call-modifier returns neither a
\* result nor a CompileError.
C21_ArgumentsFirst ==
    /\ (IsNormalCall(call) /\ ArgFailing(call.expr) # {})
       => /\ result.status = compile_expr(ctx, call.expr.args[Least(ArgFailing(call.expr))]).status
          /\ result.err = compile_expr(ctx, call.expr.args[Least(ArgFailing(call.expr))]).err
          /\ result.span = compile_expr(ctx, call.expr.args[Least(ArgFailing(call.expr))]).span
          /\ ArgsIn(call.expr, result.trace)
                = [i \in 1..Least(ArgFailing(call.expr)) |-> call.expr.args[i].span]
    /\ (IsNormalCall(call) /\ ArgFailing(call.expr) = {})
       => /\ ArgsIn(call.expr, result.trace)
                = [i \in 1..Len(call.expr.args) |-> call.expr.args[i].span]
          /\ result.status = compile_call(ctx, call.expr.span, call.expr.func, CallArgs(call)).status
          /\ result.err = compile_call(ctx, call.expr.span, call.expr.func, CallArgs(call)).err
          /\ result.span = compile_call(ctx, call.expr.span, call.expr.func, CallArgs(call)).span
          /\ result.latex = compile_call(ctx, call.expr.span, call.expr.func, CallArgs(call)).latex
          /\ result.type = compile_call(ctx, call.expr.span, call.expr.func, CallArgs(call)).type
    /\ (call.op = "compile_expr" /\ call.expr.tag = "Call" /\ call.expr.modifier = "MapCall")
       => result.status = "Panic"

\* an unknown callee given two arguments, the first a list, the second
\* undefined: the undefined variable is what is reported
W_C21 ==
    /\ IsNormalCall(call) /\ Len(call.expr.args) = 2
    /\ ~Known(call.expr.func)
    /\ CompilesTo(call.expr.args[1], List)
    /\ call.expr.args[2].tag = "Variable"
    /\ Failed(result, UndefinedVariable(call.expr.args[2].val), call.expr.args[2].span)

\* a map macro of at least two arguments whose first is a bare variable, and
\* the spans of its remaining arguments as they follow one another in a trace
WellShapedMap(c) == IsMap(c) /\ Len(c.args) >= 2 /\ c.args[1].tag = "Variable"
MapArgsIn(c, trace) ==
    SelectSeq(trace, LAMBDA sp : \E i \in 2..Len(c.args) : c.args[i].span = sp)
\* the call the macro stands for: f on the compiled remaining arguments, in
\* macro mode
MapCallOf(c) ==
    compile_call([ctx EXCEPT !.inside_map_macro = TRUE], c.span, c.args[1].val, MapArgs(c))

\* C22: map(f, a1..ak) with f a bare variable is checked as a call of f with
\* a1..ak only.  The remaining arguments are compiled left to right outside
\* macro mode before f is resolved: when one fails, the leftmost failure is
\* returned and no later argument is compiled.  When all compile, an
\* unresolvable f gives UnknownFunction(f) at the macro's span, k different
\* from f's parameter count gives WrongArgCount{got: k, expected: count} at
\* the macro's span, and the result is in every case what compile_call
\* returns: on success the Call node of f whose arguments are the k compiled
\* arguments, and its type.
C22_MapIsCallOfRest ==
    /\ (WellShapedMap(call) /\ MapFailing(call) # {})
       => /\ result.status = compile_expr(ctx, call.args[Least(MapFailing(call))]).status
          /\ result.err = compile_expr(ctx, call.args[Least(MapFailing(call))]).err
          /\ result.span = compile_expr(ctx, call.args[Least(MapFailing(call))]).span
          /\ MapArgsIn(call, result.trace)
                = [i \in 1..(Least(MapFailing(call)) - 1) |-> call.args[i + 1].span]
    /\ (WellShapedMap(call) /\ MapFailing(call) = {})
       => /\ MapArgsIn(call, result.trace)
                = [i \in 1..(Len(call.args) - 1) |-> call.args[i + 1].span]
          /\ ~Known(call.args[1].val)
                => Failed(result, UnknownFunction(call.args[1].val), call.span)
          /\ (Known(call.args[1].val)
                /\ Len(call.args) - 1 # Len(SignatureOf(call.args[1].val).args))
                => Failed(result,
                          WrongArgCount(Len(call.args) - 1,
                                        Len(SignatureOf(call.args[1].val).args)),
                          call.span)
          /\ result.status = MapCallOf(call).status
          /\ result.err = MapCallOf(call).err
          /\ result.span = MapCallOf(call).span
          /\ result.latex = MapCallOf(call).latex
          /\ result.type = MapCallOf(call).type
          /\ result.status = "Ok"
                => /\ result.latex.func = call.args[1].val
                   /\ result.latex.args
                        = [i \in 1..(Len(call.args) - 1) |-> LatexOf(call.args[i + 1])]
                   /\ result.type = SignatureOf(call.args[1].val).ret

\* map(f, a1, a2) succeeding for a user function of two parameters
W_C22 ==
    /\ WellShapedMap(call) /\ Len(call.args) = 3
    /\ call.args[1].val \in DOMAIN defined_functions
    /\ result.status = "Ok"
    /\ result.latex.func = call.args[1].val
    /\ result.latex.args = <<LatexOf(call.args[2]), LatexOf(call.args[3])>>

\* C23: while the body of a function definition is compiled, locals holds
\* exactly the definition's declared parameters, whatever statements came
\* before: a body that is a bare reference to a name that is neither a global
\* nor a parameter of the definition fails with UndefinedVariable at the
\* reference's span.
C23_BodyScope ==
    [][IsStmt(call', "FuncDef")
       => /\ DOMAIN Scope(call').locals = ParamNames(call'.stmt.fdef)
          /\ (/\ call'.stmt.e.tag = "Variable"
              /\ call'.stmt.e.val \notin DOMAIN variables
              /\ call'.stmt.e.val \notin ParamNames(call'.stmt.fdef))
             => Failed(result', UndefinedVariable(call'.stmt.e.val), call'.stmt.e.span)]_vars

\* C24: compiling an expression never changes the Context.  compile_stmt on
\* a bare-expression statement leaves variables, locals, defined_functions
\* and the macro-mode flag as they were, whatever it returns; compile_expr on
\* the body of a definition returns the Context it was given; and
\* defined_functions changes only by a function definition that succeeds,
\* which adds its own name.
C24_ExpressionFrame ==
    [][/\ IsStmt(call', "Expression")
            => /\ UNCHANGED <<variables, locals, defined_functions, inside_map_macro>>
               /\ compile_expr(ctx, call'.stmt.e).ctx = ctx
       /\ IsStmt(call', "FuncDef") => BodyResult(call').ctx = Scope(call')
       /\ defined_functions' # defined_functions
            => /\ IsStmt(call', "FuncDef")
               /\ result'.status = "Ok"
               /\ DOMAIN defined_functions'
                    = DOMAIN defined_functions \cup {call'.stmt.fdef.name}
               /\ \A n \in DOMAIN defined_functions \ {call'.stmt.fdef.name} :
                        defined_functions'[n] = defined_functions[n]]_vars

\* an expression statement that fails on a Context holding a user function
\* and a leftover local
W_C24 ==
    /\ IsStmt(call, "Expression")
    /\ result.status = "Err"
    /\ defined_functions # EmptyMap
    /\ locals # EmptyMap

\* the text the claim gives for a comparator, and a clause written with it
CmpText(op) ==
    CASE op = "Equal" -> <<"=">>
      [] op = "GreaterThan" -> <<">">>
      [] op = "LessThan" -> <<"<">>
      [] op = "GreaterThanEqual" -> <<"\\", "g", "e">>
      [] op = "LessThanEqual" -> <<"\\", "l", "e">>
ClauseText(c) ==
    latex_to_str(c.left) \o CmpText(c.op) \o latex_to_str(c.right) \o <<":">>
        \o latex_to_str(c.result)

\* C25: the renderer writes Equal as =, GreaterThan as >, LessThan as <,
\* GreaterThanEqual as \ge and LessThanEqual as \le, five distinct texts; a
\* clause is its left, the comparator, its right, a colon, its result; a
\* piecewise is, between braces, the first clause, the rest clauses in
\* order, each followed by a comma, and the default.
C25_ComparatorText ==
    /\ call.op = "compareop_to_str"
        => /\ result.text = CmpText(call.cmp)
           /\ \A other_op \in CompareOperator \ {call.cmp} :
                    compareop_to_str(other_op) # result.text
    /\ call.op = "cond_to_str" => result.text = ClauseText(call.cond)
    /\ (call.op = "latex_to_str" /\ call.l.tag = "Piecewise")
        => result.text
            = LeftBraceText \o ClauseText(call.l.first) \o <<",">>
                \o collect([i \in 1..Len(call.l.rest) |-> ClauseText(call.l.rest[i]) \o <<",">>])
                \o latex_to_str(call.l.default) \o RightBraceText

\* the text the claim gives for an identifier, and rendered arguments
IdentText(v) ==
    IF Len(chars(v)) <= 1 THEN chars(v)
    ELSE <<chars(v)[1], "_", "{">> \o SubSeq(chars(v), 2, Len(chars(v))) \o <<"}">>
ArgsText(args) == join([i \in 1..Len(args) |-> latex_to_str(args[i])], <<",">>)

\* C26: the renderer writes an identifier of several characters as its first
\* character followed by _{rest}, one of a single character as itself, the
\* empty one as nothing: in a Variable node, for the parameter names and the
\* function name of a FuncDef node, and for the function name of a Call node
\* that is not builtin.  A builtin Call is written with a backslash before
\* its name, a user Call without.
C26_IdentifierText ==
    /\ call.op = "format_latex_identifier" => result.text = IdentText(call.v)
    /\ (call.op = "latex_to_str" /\ call.l.tag = "Variable")
        => result.text = IdentText(call.l.val)
    /\ (call.op = "latex_to_str" /\ call.l.tag = "FuncDef")
        => result.text
            = IdentText(call.l.name) \o LeftParenText
                \o join([i \in 1..Len(call.l.args) |-> IdentText(call.l.args[i])], <<",">>)
                \o RightParenText \o <<"=">> \o latex_to_str(call.l.body)
    /\ (call.op = "latex_to_str" /\ call.l.tag = "Call" /\ ~call.l.is_builtin)
        => result.text
            = IdentText(call.l.func) \o LeftParenText \o ArgsText(call.l.args)
                \o RightParenText
    /\ (call.op = "latex_to_str" /\ call.l.tag = "Call" /\ call.l.is_builtin)
        => result.text
            = <<"\\">> \o chars(call.l.func) \o LeftParenText \o ArgsText(call.l.args)
                \o RightParenText
====
